---- MODULE Spec2Model ----
(***************************************************************************)
(* State-machine model of shaka.media.SourceBufferManager (SBM): the       *)
(* fetch / clear / reset / abort operations, the task of stages they       *)
(* build, the SourceBuffer they drive and its 'updateend' events.           *)
(*                                                                         *)
(* One action is one browser macrotask: an API call or an event handler     *)
(* together with the promise reactions it triggers, up to the point where   *)
(* the task waits for a network response or for the SourceBuffer.           *)
(*                                                                         *)
(* Spec and LiveSpec are the manager with the session's manifest and the    *)
(* global shaka.dash.mss.baseUrl.  Four further specifications apply pure   *)
(* parts of the code to bounded inputs: GroupSpec the grouping of           *)
(* references into requests by fetch(), QuerySpec isBuffered and            *)
(* bufferedAheadOf, RewriterSpec uux.convertFragment on byte arrays with    *)
(* the global uux.currentTime, TrafSpec either of the two rewriters,        *)
(* uux.MssFragmentController.convertFragment on the boxes of traf.          *)
(***************************************************************************)
EXTENDS Integers, Sequences, FiniteSets, TLC

\* ----------------------------------------------------------------- bounds
NumIds == 2          \* segment ids are 1..NumIds
MaxRefs == 2         \* longest reference list handed to fetch()
MaxSinkOps == 2      \* the SourceBuffer refuses (throws) beyond this many queued operations
MaxGroupRefs == 3    \* longest reference list whose grouping into requests is examined
MaxTick == 6         \* buffered ranges lie in 0..MaxTick; the time unit is 1/120 s
MaxRanges == 2       \* most ranges in sourceBuffer.buffered when it is queried
MaxCalls == 3        \* calls of uux.convertFragment in one page
MaxPayload == 2      \* longest mdat payload, in bytes
MaxTfrf == 2         \* most tfrf boxes in a traf box
MaxSamples == 2      \* most samples in a fragment handed to the box-tree rewriter

\* ----------------------------------------------------------------- inputs
Ids == 1..NumIds
Urls == {"A", "B"}
Range(s) == {s[i] : i \in DOMAIN s}
\* A SegmentReference: the fields the manager reads.
Refs == [id : Ids, url : Urls]
\* The reference lists handed to fetch(): a SegmentRange lists references in the
\* order of the segment index, so the ids of a list ascend.  The code only compares
\* URLs for equality, so the first URL of a list is named "A".
RefLists ==
  {s \in UNION {[1..n -> Refs] : n \in 0..MaxRefs} :
     /\ \A i, j \in DOMAIN s : i < j => s[i].id < s[j].id
     /\ s # <<>> => s[1].url = "A"}
IdsOf(refs) == [i \in DOMAIN refs |-> refs[i].id]
StatusErrs == {"status404", "status500"}
\* What a response can carry, told apart by what convertFragment finds in it: a
\* fragment (moof with traf, tfhd and trun, then mdat), a file without a moof box,
\* a moof box without a traf box, and bytes mp4lib.deserialize returns nothing for.
FetchedKinds == {"fragment", "noMoof", "noTraf", "garbage"}
\* The manifests a session can load: DASH (MPD) and Smooth Streaming (MSS).
ManifestKinds == {"dash", "mss"}
\* The statuses listed in opt_endEarlyOn: of the two failure statuses a request can
\* end with, one is listed and the other is not.
EndEarlyChoices == {{"status404"}}
StreamInfos == {"video"}
BufferedChoices == { <<>>, <<[start |-> 1, end |-> 3]>> }

\* FUDGE_FACTOR_ = 1/60 s, in units of 1/120 s.
FUDGE_FACTOR_ == 2
\* The members of a set of numbers in ascending order.
RECURSIVE Ascending(_)
Ascending(S) ==
  IF S = {} THEN <<>>
  ELSE LET lo == CHOOSE x \in S : \A y \in S : x <= y IN <<lo>> \o Ascending(S \ {lo})
\* A TimeRanges object: ranges that are not empty, ascend and do not touch.
TimeRanges ==
  {[i \in 1..(Len(a) \div 2) |-> [start |-> a[2 * i - 1], end |-> a[2 * i]]] :
     a \in {Ascending(S) : S \in {T \in SUBSET (0..MaxTick) :
                                    /\ Cardinality(T) % 2 = 0
                                    /\ Cardinality(T) <= 2 * MaxRanges}}}
\* The timestamps asked about: inside, at the ends of, within the fudge factor of,
\* and outside the ranges.
Timestamps == (0 - FUDGE_FACTOR_ - 1)..(MaxTick + FUDGE_FACTOR_ + 1)

\* Reference lists with their byte ranges, for the grouping fetch() does: the i-th
\* reference has id i, any URL, and a segment of one or two bytes that starts where
\* the segment before it ends.
SegmentSizes == {1, 2}
RECURSIVE StartOf(_, _)
StartOf(sizes, i) == IF i = 1 THEN 0 ELSE StartOf(sizes, i - 1) + sizes[i - 1]
GroupRefLists ==
  UNION {{[i \in 1..n |-> [id |-> i, url |-> u[i], startByte |-> StartOf(z, i),
                           endByte |-> StartOf(z, i) + z[i] - 1]] :
            u \in [1..n -> Urls], z \in [1..n -> SegmentSizes]} : n \in 0..MaxGroupRefs}

VARIABLES
  inserted,           \* this.inserted_: the ids marked inserted
  streamInfo,         \* this.streamInfo
  task_,              \* this.task_ is non-null
  operationPromise_,  \* this.operationPromise_: 0 (null) or the token of a PublicPromise
  stages_,            \* the task's stages that have not started yet
  stage,              \* the task's running stage
  aborting_,          \* the task has been told to abort
  awaitTok,           \* the PublicPromise the running stage returned (0: none)
  endEarlyOn,         \* the statuses the running fetch ends early on
  request,            \* the RangeRequest in flight: "none", "sent", "aborted"
  sinkPending,        \* SourceBuffer operations whose 'updateend' is not delivered yet
  buffered,           \* sourceBuffer_.buffered
  readyState,         \* mediaSource_.readyState
  future,             \* the promise returned by the accepted fetch()/clear(): pending while
                      \* its task runs, settled in the state its task ends in
  abortFuture,        \* likewise, the promise returned by abort() on the running task
  settles,            \* how often the last accepted call's promise was settled
  taskOp,             \* the call that built the running task
  taskRefs,           \* the ids of the references of the running fetch
  completed,          \* the ids whose own append the sink has completed, for the running task
  resetDuring,        \* reset() was called while the running task was active
  cleanStart,         \* no reference of the running fetch was marked when it was called
  lastCall,           \* what the step that led here was, when it was an API call
  ran,                \* the stages started by the step that led here
  sinkCalls,          \* the SourceBuffer methods called by the step that led here
  reqEv,              \* the outcome of the request settled by the step that led here
  sinkEv,             \* the 'updateend' delivered by the step that led here: of an
                      \* operation the sink "completed" or "aborted"
  marked,             \* the ids marked inserted by the step that led here
  wiped,              \* the step that led here emptied the inserted map
  overlap,            \* the step that led here called appendBuffer/remove while an earlier
                      \* operation had not signalled its completion
  lateRun,            \* the step that led here started a stage of a task told to abort
  baseUrl,            \* shaka.dash.mss.baseUrl: "null" or "uri"
  manifest,           \* the kind of the manifest the session plays
  fetched,            \* what the request settled by the step that led here carried
  converted,          \* what convertFragment did in the step that led here: "none" (not
                      \* called), "rewritten", "same" (returned its input), "null", "threw"
  threw,              \* a SourceBuffer method called by the step that led here threw
  grouping,           \* a reference list, and the stages fetch() builds for it
  query,              \* sourceBuffer.buffered and a timestamp, and what bufferedAheadOf
                      \* and isBuffered return for them
  currentTime,        \* uux.currentTime
  conv,               \* the last call of uux.convertFragment: its arguments, whether it
                      \* threw, and what it returned
  prev,               \* the call of uux.convertFragment before that
  ctl                 \* the last call of MssFragmentController.convertFragment: the
                      \* boxes of traf it was given and those it left

sbmVars == <<inserted, streamInfo, task_, operationPromise_, stages_, stage, aborting_,
          awaitTok, endEarlyOn, request, sinkPending, buffered, readyState, future,
          abortFuture, settles, taskOp, taskRefs, completed, resetDuring, cleanStart,
          lastCall, ran, sinkCalls, reqEv, sinkEv, marked, wiped, overlap, lateRun,
          baseUrl, manifest, fetched, converted, threw>>
rewriterVars == <<currentTime, conv, prev>>
vars == <<sbmVars, grouping, query, rewriterVars, ctl>>

Stage(k, refs) == [kind |-> k, refs |-> refs]
NoStage == Stage("none", <<>>)
NoGrouping == [refs |-> <<>>, init |-> FALSE, stages |-> <<>>]
NoConv == [buffer |-> <<>>, chunkTime |-> 0, isEncrypted |-> FALSE, valid |-> FALSE,
           threw |-> FALSE, out |-> <<>>]
NoCtl == [traf |-> <<>>, boxes |-> <<>>]
NoQuery == [buffered |-> <<>>, timestamp |-> 0, ahead |-> 0, isBuffered |-> FALSE]
\* An API call as the caller sees it: the operation, what it returned (ret: the
\* task's promise, a promise rejected as in progress, a resolved or a pending
\* promise), and, for abort(), the abort callback it invoked (cb).
NoCall == [op |-> "none", ret |-> "none", cb |-> "none"]
Call(op, ret, cb) == [op |-> op, ret |-> ret, cb |-> cb]
NoFuture == [state |-> "none", err |-> "none"]
SinkKinds == {"init", "append", "clear"}

\* The whole state as one record, so that a handler is a function on it.  p is the
\* promise the stage just run returned, tp the task's promise, err the error carried.
\* What is recorded about a step or about a task is forgotten one step after it.
M ==
  [inserted |-> inserted, streamInfo |-> streamInfo, task_ |-> task_,
   operationPromise_ |-> operationPromise_, stages_ |-> stages_, stage |-> stage,
   aborting_ |-> aborting_, awaitTok |-> awaitTok,
   endEarlyOn |-> IF task_ THEN endEarlyOn ELSE {},
   request |-> request, sinkPending |-> sinkPending, buffered |-> buffered,
   readyState |-> readyState,
   future |-> IF task_ THEN future ELSE NoFuture,
   abortFuture |-> IF task_ THEN abortFuture ELSE NoFuture,
   settles |-> settles,
   taskOp |-> IF task_ THEN taskOp ELSE "none",
   taskRefs |-> IF task_ THEN taskRefs ELSE {},
   completed |-> IF task_ THEN completed ELSE {},
   resetDuring |-> task_ /\ resetDuring,
   cleanStart |-> task_ /\ cleanStart,
   lastCall |-> NoCall, ran |-> <<>>, sinkCalls |-> {}, reqEv |-> "none",
   baseUrl |-> baseUrl, manifest |-> manifest, fetched |-> "none", converted |-> "none",
   sinkEv |-> "none", marked |-> {}, wiped |-> FALSE, overlap |-> FALSE, lateRun |-> FALSE,
   threw |-> FALSE,
   p |-> "pending", tp |-> "pending", err |-> "none"]

Commit(m) ==
  /\ inserted' = m.inserted
  /\ streamInfo' = m.streamInfo
  /\ task_' = m.task_
  /\ operationPromise_' = m.operationPromise_
  /\ stages_' = m.stages_
  /\ stage' = m.stage
  /\ aborting_' = m.aborting_
  /\ awaitTok' = m.awaitTok
  /\ endEarlyOn' = m.endEarlyOn
  /\ request' = m.request
  /\ sinkPending' = m.sinkPending
  /\ buffered' = m.buffered
  /\ readyState' = m.readyState
  /\ future' = m.future
  /\ abortFuture' = m.abortFuture
  /\ settles' = m.settles
  /\ taskOp' = m.taskOp
  /\ taskRefs' = m.taskRefs
  /\ completed' = m.completed
  /\ resetDuring' = m.resetDuring
  /\ lastCall' = m.lastCall
  /\ ran' = m.ran
  /\ sinkCalls' = m.sinkCalls
  /\ reqEv' = m.reqEv
  /\ sinkEv' = m.sinkEv
  /\ cleanStart' = m.cleanStart
  /\ marked' = m.marked
  /\ wiped' = m.wiped
  /\ overlap' = m.overlap
  /\ lateRun' = m.lateRun
  /\ threw' = m.threw
  /\ baseUrl' = m.baseUrl
  /\ manifest' = m.manifest
  /\ fetched' = m.fetched
  /\ converted' = m.converted
  /\ UNCHANGED <<grouping, query, rewriterVars, ctl>>

\* ------------------------------------------------------- the SourceBuffer
FreshToken(m) ==
  CHOOSE t \in 1..(Len(m.sinkPending) + 2) :
    /\ t # m.operationPromise_
    /\ \A i \in DOMAIN m.sinkPending : m.sinkPending[i].tok # t
\* What is handed to appendBuffer: the references it carries and the bytes ("init":
\* the initialization segment; what was fetched; or what convertFragment returned).
Data(refs, bytes) == [refs |-> refs, bytes |-> bytes]
NoData == Data(<<>>, "none")
SinkOp(t, kind, data) ==
  [tok |-> t, kind |-> kind, refs |-> data.refs, rewritten |-> data.bytes = "rewritten",
   aborted |-> FALSE]
SinkAbort(q) == [i \in DOMAIN q |-> [q[i] EXCEPT !.aborted = TRUE]]

\* ------------------------------------------------------------ SBM private
\* append_ with the exception swallowed: the catch block does not return, and the
\* promise of an operation that never started is registered.
append_swallows(m, data, throws) ==
  LET called == [m EXCEPT !.sinkCalls = @ \cup {"appendBuffer"},
                          !.overlap = @ \/ m.sinkPending # <<>>]
      t == FreshToken(m) IN
  IF throws \/ data.bytes = "null" \/ Len(m.sinkPending) >= MaxSinkOps
  THEN [called EXCEPT !.threw = TRUE,
                      !.operationPromise_ = t, !.awaitTok = t, !.p = "pending"]
  ELSE [called EXCEPT !.sinkPending = Append(@, SinkOp(t, "append", data)),
                      !.operationPromise_ = t, !.awaitTok = t, !.p = "pending"]

\* append_: appendBuffer, then a fresh operationPromise_; a thrown exception is a
\* rejected promise.  appendBuffer(null) throws a TypeError.
append_(m, data, throws) ==
  LET called == [m EXCEPT !.sinkCalls = @ \cup {"appendBuffer"},
                          !.overlap = @ \/ m.sinkPending # <<>>] IN
  IF throws \/ data.bytes = "null" \/ Len(m.sinkPending) >= MaxSinkOps
  THEN [called EXCEPT !.threw = TRUE, !.p = "rejected", !.err = "appendException"]
  ELSE LET t == FreshToken(m) IN
       [called EXCEPT !.sinkPending = Append(@, SinkOp(t, "append", data)),
                      !.operationPromise_ = t, !.awaitTok = t, !.p = "pending"]

\* clear_ that empties the map before calling remove.
clear_wipesFirst(m, throws) ==
  IF m.buffered = <<>>
  THEN [m EXCEPT !.p = "resolved"]
  ELSE LET called == [m EXCEPT !.sinkCalls = @ \cup {"remove"},
                               !.overlap = @ \/ m.sinkPending # <<>>,
                               !.inserted = {}, !.wiped = TRUE] IN
       IF throws \/ Len(m.sinkPending) >= MaxSinkOps
       THEN [called EXCEPT !.threw = TRUE, !.p = "rejected", !.err = "removeException"]
       ELSE LET t == FreshToken(m) IN
            [called EXCEPT !.sinkPending = Append(@, SinkOp(t, "remove", NoData)),
                           !.operationPromise_ = t, !.awaitTok = t, !.p = "pending"]

\* clear_: nothing buffered resolves at once; else remove(0, Infinity), the map is
\* emptied, and a fresh operationPromise_.
clear_(m, throws) ==
  IF m.buffered = <<>>
  THEN [m EXCEPT !.p = "resolved"]
  ELSE LET called == [m EXCEPT !.sinkCalls = @ \cup {"remove"},
                               !.overlap = @ \/ m.sinkPending # <<>>] IN
       IF throws \/ Len(m.sinkPending) >= MaxSinkOps
       THEN [called EXCEPT !.threw = TRUE, !.p = "rejected", !.err = "removeException"]
       ELSE LET t == FreshToken(m) IN
            [called EXCEPT !.sinkPending = Append(@, SinkOp(t, "remove", NoData)),
                           !.inserted = {}, !.wiped = TRUE,
                           !.operationPromise_ = t, !.awaitTok = t, !.p = "pending"]

\* abort_ without the readyState test.
abort_unconditional(m) ==
  [m EXCEPT !.sinkCalls = @ \cup {"abort"}, !.sinkPending = SinkAbort(@)]

\* abort_: sourceBuffer_.abort() only while the MediaSource is open.
abort_(m) ==
  IF m.readyState = "open"
  THEN [m EXCEPT !.sinkCalls = @ \cup {"abort"}, !.sinkPending = SinkAbort(@)]
  ELSE m

\* ------------------------------------------ the stage functions of a task
\* fetch(): the optional stage appending the initialization segment.
initStage(m, s, throws) == append_(m, Data(s.refs, "init"), throws)

\* appendFetchStages_, first stage: send the range request.
requestStage(m, s) == [m EXCEPT !.request = "sent", !.p = "pending"]

\* MssFragmentController.convertFragment, by what it returns for each kind of
\* input: null when nothing deserializes, its input when there is no moof box, a
\* TypeError when the moof box has no traf box (traf.getBoxByType on null), and the
\* serialized rewritten fragment otherwise.
convertOutcome(bytes) ==
  CASE bytes = "garbage" -> "null"
    [] bytes = "noMoof"  -> "same"
    [] bytes = "noTraf"  -> "threw"
    [] OTHER             -> "rewritten"

\* appendFetchStages_, second stage: append the fetched data, converted first when
\* shaka.dash.mss.baseUrl is set.  An exception of convertFragment is outside
\* append_'s try block: the stage fails with it.
appendStage(m, s, throws) ==
  IF m.baseUrl = "null"
  THEN append_(m, Data(s.refs, m.fetched), throws)
  ELSE LET c  == convertOutcome(m.fetched)
           m1 == [m EXCEPT !.converted = c] IN
       CASE c = "threw" -> [m1 EXCEPT !.p = "rejected", !.err = "convertException"]
         [] c = "same"  -> append_(m1, Data(s.refs, m.fetched), throws)
         [] OTHER       -> append_(m1, Data(s.refs, c), throws)

\* The third stage with a loop that stops after the first reference.
insertStage_firstOnly(m, s) ==
  [m EXCEPT !.inserted = @ \cup {s.refs[1]}, !.marked = @ \cup {s.refs[1]},
            !.p = "resolved"]

\* appendFetchStages_, third stage: mark every reference inserted.
insertStage(m, s) ==
  [m EXCEPT !.inserted = @ \cup Range(s.refs), !.marked = @ \cup Range(s.refs),
            !.p = "resolved"]

\* clear(): its single stage.
clearStage(m, s, throws) == clear_(m, throws)

\* appendFetchStages_ marking the references before the append stage.
appendFetchStages_markFirst(refs) ==
  << Stage("fetch", refs), Stage("mark", refs), Stage("append", refs) >>

\* appendFetchStages_: the three stages of one group of references.
appendFetchStages_(refs) ==
  << Stage("fetch", refs), Stage("append", refs), Stage("mark", refs) >>

\* ------------------------------------------------------- shaka.util.Task
RunStage(m, s, throws) ==
  CASE s.kind = "init"   -> initStage(m, s, throws)
    [] s.kind = "fetch"  -> requestStage(m, s)
    [] s.kind = "append" -> appendStage(m, s, throws)
    [] s.kind = "mark"   -> insertStage(m, s)
    [] s.kind = "clear"  -> clearStage(m, s, throws)

TaskDone(m, how, e) ==
  [m EXCEPT !.tp = how, !.err = e, !.stages_ = <<>>, !.stage = NoStage, !.awaitTok = 0]

RECURSIVE Task_startNextStage_(_, _)
Task_startNextStage_(m, throws) ==
  IF m.stages_ = <<>>
  THEN TaskDone(m, "resolved", "none")
  ELSE LET s  == Head(m.stages_)
           m1 == [m EXCEPT !.stages_ = Tail(@), !.stage = s, !.awaitTok = 0,
                           !.ran = Append(@, s.kind),
                           !.lateRun = @ \/ m.aborting_]
           m2 == RunStage(m1, s, throws)
       IN CASE m2.p = "pending"  -> m2
            [] m2.p = "resolved" -> Task_startNextStage_(m2, throws)
            [] m2.p = "rejected" -> TaskDone(m2, "rejected", m2.err)

\* The running stage's promise has settled (m.p, m.err).
Task_onStageSettled(m, throws) ==
  IF m.p = "rejected"
  THEN TaskDone(m, "rejected", m.err)
  ELSE IF m.aborting_
       THEN TaskDone(m, "rejected", "aborted")
       ELSE Task_startNextStage_(m, throws)

\* Task.end(): drop the stages that have not started.
Task_end(m) == [m EXCEPT !.stages_ = <<>>]

\* Task.abort(): call the running stage's abort callback and stop advancing.
Task_abort(m) ==
  LET cb == CASE m.stage.kind = "fetch" -> "request.abort"
              [] m.stage.kind \in SinkKinds -> "abort_"
              [] OTHER -> "none"
      m1 == CASE cb = "request.abort" ->
                   [m EXCEPT !.request = IF @ = "sent" THEN "aborted" ELSE @]
              [] cb = "abort_" -> abort_(m)
              [] OTHER -> m
  IN [m1 EXCEPT !.aborting_ = TRUE, !.abortFuture = [state |-> "pending", err |-> "none"],
                !.lastCall = Call("abort", "pending", cb)]

\* ------------------------------------------------------------- SBM public
\* startTask_ whose catch reaction does not empty the slot.
onTaskPromise_keepsOnError(m) ==
  IF m.tp = "pending"
  THEN m
  ELSE [m EXCEPT !.task_ = (m.tp = "rejected"),
                 !.future = [state |-> m.tp, err |-> m.err],
                 !.settles = IF @ < 2 THEN @ + 1 ELSE @,
                 !.abortFuture = IF @.state = "pending"
                                 THEN [state |-> "resolved", err |-> "none"] ELSE @,
                 !.aborting_ = FALSE,
                 !.tp = "pending", !.err = "none"]

\* startTask_: the reactions on the task's promise: empty the slot, then settle
\* the returned promise the same way.
onTaskPromise(m) ==
  IF m.tp = "pending"
  THEN m
  ELSE [m EXCEPT !.task_ = FALSE,
                 !.future = [state |-> m.tp, err |-> m.err],
                 !.settles = IF @ < 2 THEN @ + 1 ELSE @,
                 !.abortFuture = IF @.state = "pending"
                                 THEN [state |-> "resolved", err |-> "none"] ELSE @,
                 !.aborting_ = FALSE,
                 !.tp = "pending", !.err = "none"]

startTask_(m, throws) == onTaskPromise(Task_startNextStage_(m, throws))

NewTask(m, op, stgs, refs, ee) ==
  [m EXCEPT !.task_ = TRUE, !.stages_ = stgs, !.stage = NoStage, !.aborting_ = FALSE,
            !.awaitTok = 0, !.endEarlyOn = ee,
            !.future = [state |-> "pending", err |-> "none"],
            !.abortFuture = NoFuture, !.settles = 0, !.taskOp = op,
            !.taskRefs = Range(IdsOf(refs)), !.completed = {}, !.resetDuring = FALSE,
            !.cleanStart = (Range(IdsOf(refs)) \cap m.inserted = {})]

\* The URL test comparing only the last reference with the first.
SingleLocation_lastOnly(refs) == refs[Len(refs)].url = refs[1].url

SingleLocation(refs) == \A i \in DOMAIN refs : refs[i].url = refs[1].url

RECURSIVE Flatten(_)
Flatten(ss) == IF ss = <<>> THEN <<>> ELSE Head(ss) \o Flatten(Tail(ss))

FetchStages(refs, init) ==
  (IF init THEN <<Stage("init", <<>>)>> ELSE <<>>)
  \o (IF refs = <<>> THEN <<>>
      ELSE IF SingleLocation(refs) THEN appendFetchStages_(IdsOf(refs))
      ELSE Flatten([i \in DOMAIN refs |-> appendFetchStages_(<<refs[i].id>>)]))

\* The RangeRequest the request stage of a group builds: the URL and startByte of
\* the group's first reference, the endByte of its last.
RangeRequest(refs, stg) ==
  LET ref(id) == CHOOSE r \in Range(refs) : r.id = id
      first == ref(stg.refs[1])
      last  == ref(stg.refs[Len(stg.refs)])
  IN [url |-> first.url, startByte |-> first.startByte, endByte |-> last.endByte]

\* fetch() without the test of the slot.
fetch_unchecked(m, refs, init, ee, si, throws) ==
  startTask_(
    [NewTask([m EXCEPT !.streamInfo = si], "fetch", FetchStages(refs, init), refs, ee)
       EXCEPT !.lastCall = Call("fetch", "future", "none")], throws)

fetch(m, refs, init, ee, si, throws) ==
  LET m0 == [m EXCEPT !.streamInfo = si] IN
  IF m.task_
  THEN [m0 EXCEPT !.lastCall = Call("fetch", "InProgress", "none")]
  ELSE startTask_(
         [NewTask(m0, "fetch", FetchStages(refs, init), refs, ee)
            EXCEPT !.lastCall = Call("fetch", "future", "none")], throws)

clear(m, throws) ==
  IF m.task_
  THEN [m EXCEPT !.lastCall = Call("clear", "InProgress", "none")]
  ELSE startTask_(
         [NewTask(m, "clear", <<Stage("clear", <<>>)>>, <<>>, {})
            EXCEPT !.lastCall = Call("clear", "future", "none")], throws)

\* reset() that also forgets the pending completion, as destroy() does.
reset_dropsPending(m) ==
  [m EXCEPT !.inserted = {}, !.wiped = TRUE, !.resetDuring = m.task_,
            !.operationPromise_ = 0,
            !.lastCall = Call("reset", "none", "none")]

reset(m) ==
  [m EXCEPT !.inserted = {}, !.wiped = TRUE, !.resetDuring = m.task_,
            !.lastCall = Call("reset", "none", "none")]

\* abort() that empties the slot itself instead of waiting for the task to end.
abort_dropsTask(m) ==
  IF ~m.task_
  THEN [m EXCEPT !.lastCall = Call("abort", "resolved", "none")]
  ELSE [Task_abort(m) EXCEPT !.task_ = FALSE]

\* abort() without the test of the slot: with no task, this.task_.abort() throws.
abort_unchecked(m) ==
  IF ~m.task_
  THEN [m EXCEPT !.lastCall = Call("abort", "threw", "none")]
  ELSE Task_abort(m)

abort(m) ==
  IF ~m.task_
  THEN [m EXCEPT !.lastCall = Call("abort", "resolved", "none")]
  ELSE Task_abort(m)

\* onSourceBufferUpdateEnd_ that nulls operationPromise_ without resolving it.
onSourceBufferUpdateEnd_noResolve(m, throws) == [m EXCEPT !.operationPromise_ = 0]

\* onSourceBufferUpdateEnd_ that resolves operationPromise_ and leaves it registered.
onSourceBufferUpdateEnd_keepsPromise(m, throws) ==
  IF m.operationPromise_ = 0
  THEN m
  ELSE IF m.task_ /\ m.awaitTok = m.operationPromise_
       THEN onTaskPromise(Task_onStageSettled([m EXCEPT !.p = "resolved"], throws))
       ELSE m

\* onSourceBufferUpdateEnd_: resolve operationPromise_ and null it; with no
\* operationPromise_ the handler throws before changing anything.
onSourceBufferUpdateEnd_(m, throws) ==
  IF m.operationPromise_ = 0
  THEN m
  ELSE LET t  == m.operationPromise_
           m1 == [m EXCEPT !.operationPromise_ = 0]
       IN IF m.task_ /\ m.awaitTok = t
          THEN onTaskPromise(Task_onStageSettled([m1 EXCEPT !.p = "resolved"], throws))
          ELSE m1

\* The reaction to the request's outcome without the call of Task.end().
onRequestSettled_noEnd(m, out, throws) ==
  LET m1 == [m EXCEPT !.request = "none", !.reqEv = out]
      m2 == IF out = "ok" \/ out \in m.endEarlyOn THEN [m1 EXCEPT !.p = "resolved"]
            ELSE [m1 EXCEPT !.p = "rejected", !.err = out]
  IN onTaskPromise(Task_onStageSettled(m2, throws))

\* appendFetchStages_, first stage: the reaction to the request's outcome.
onRequestSettled(m, out, throws) ==
  LET m1 == [m EXCEPT !.request = "none", !.reqEv = out]
      m2 == IF out = "ok" THEN [m1 EXCEPT !.p = "resolved"]
            ELSE IF out \in m.endEarlyOn THEN [Task_end(m1) EXCEPT !.p = "resolved"]
            ELSE [m1 EXCEPT !.p = "rejected", !.err = out]
  IN onTaskPromise(Task_onStageSettled(m2, throws))

\* ----------------------------------------------------------------- actions
Init ==
  /\ inserted = {}
  /\ streamInfo = "undefined"
  /\ task_ = FALSE
  /\ operationPromise_ = 0
  /\ stages_ = <<>>
  /\ stage = NoStage
  /\ aborting_ = FALSE
  /\ awaitTok = 0
  /\ endEarlyOn = {}
  /\ request = "none"
  /\ sinkPending = <<>>
  /\ buffered = <<>>
  /\ readyState = "open"
  /\ future = NoFuture
  /\ abortFuture = NoFuture
  /\ settles = 0
  /\ taskOp = "none"
  /\ taskRefs = {}
  /\ completed = {}
  /\ resetDuring = FALSE
  /\ lastCall = NoCall
  /\ ran = <<>>
  /\ sinkCalls = {}
  /\ reqEv = "none"
  /\ sinkEv = "none"
  /\ cleanStart = FALSE
  /\ marked = {}
  /\ wiped = FALSE
  /\ overlap = FALSE
  /\ lateRun = FALSE
  /\ threw = FALSE
  /\ baseUrl = "null"
  /\ manifest = "dash"
  /\ fetched = "none"
  /\ converted = "none"
  /\ grouping = NoGrouping
  /\ query = NoQuery
  /\ currentTime = -1
  /\ conv = NoConv
  /\ prev = NoConv
  /\ ctl = NoCtl

\* Whether appendBuffer/remove throws is drawn only where one may be called.
ThrowChoices(stgs) ==
  IF \E i \in DOMAIN stgs : stgs[i].kind \in SinkKinds THEN BOOLEAN ELSE {FALSE}

\* fetch() with every input; a call made while a task is active reads none of its
\* inputs but streamInfo, so the others are drawn from a few.
Fetch ==
  \E si \in StreamInfos, init \in (IF task_ THEN {TRUE} ELSE BOOLEAN) :
    \E refs \in (IF task_ THEN {<<>>} ELSE RefLists) :
      \E ee \in EndEarlyChoices,
         throws \in (IF init /\ ~task_ THEN BOOLEAN ELSE {FALSE}) :
        \E m \in {fetch(M, refs, init, ee, si, throws)} : Commit(m)

Clear ==
  \E throws \in (IF task_ \/ buffered = <<>> THEN {FALSE} ELSE BOOLEAN) :
    \E m \in {clear(M, throws)} : Commit(m)

Reset == \E m \in {reset(M)} : Commit(m)

Abort == \E m \in {abort(M)} : Commit(m)

\* The SourceBuffer finishes (or has aborted) its oldest operation and fires 'updateend'.
UpdateEnd ==
  /\ sinkPending # <<>>
  /\ \E throws \in ThrowChoices(stages_), b \in BufferedChoices \ {<<>>} :
       LET op == Head(sinkPending)
           m0 == [M EXCEPT
                    !.sinkPending = Tail(@),
                    !.sinkEv = IF op.aborted THEN "aborted" ELSE "completed",
                    !.buffered = IF op.aborted THEN @
                                 ELSE IF op.kind = "remove" THEN <<>> ELSE b,
                    !.completed = IF op.kind = "append" /\ ~op.aborted
                                  THEN @ \cup Range(op.refs) ELSE @]
       IN \E m \in {onSourceBufferUpdateEnd_(m0, throws)} : Commit(m)

\* The range request settles: with the data, with a failure status, or as aborted.
\* What the data is matters to convertFragment only: with shaka.dash.mss.baseUrl
\* null the bytes are handed on unread, and one kind stands for all.
RequestDone ==
  /\ request # "none"
  /\ \E out \in (IF request = "aborted" THEN {"aborted"} ELSE {"ok"} \cup StatusErrs) :
       \E throws \in (IF out = "ok" THEN ThrowChoices(stages_) ELSE {FALSE}),
          bytes \in (IF out # "ok" THEN {"none"}
                    ELSE IF baseUrl = "null" THEN {"fragment"} ELSE FetchedKinds) :
         \E m \in {onRequestSettled([M EXCEPT !.fetched = bytes], out, throws)} : Commit(m)

\* parseMss: the first statement sets shaka.dash.mss.baseUrl, whether or not the
\* document then parses.
parseMss(m, parses) ==
  [m EXCEPT !.baseUrl = "uri", !.manifest = IF parses THEN "mss" ELSE @]

\* The constructor: the manager of a new stream, on a new SourceBuffer of an open
\* MediaSource.
SourceBufferManager(m) ==
  [m EXCEPT !.inserted = {}, !.streamInfo = "undefined", !.task_ = FALSE,
            !.operationPromise_ = 0, !.buffered = <<>>, !.readyState = "open",
            !.settles = 0]

\* The session loads a manifest while its manager is idle, and plays it with a new
\* manager: an MSS manifest goes through parseMss, a DASH manifest does not touch the
\* MSS parser.  A manifest that does not parse leaves the session as it is.
LoadManifest ==
  /\ ~task_ /\ sinkPending = <<>>
  /\ \E kind \in ManifestKinds, parses \in BOOLEAN :
       LET m1 == IF kind = "mss" THEN parseMss(M, parses)
                 ELSE [M EXCEPT !.manifest = IF parses THEN "dash" ELSE @]
       IN \E m \in {IF parses THEN SourceBufferManager(m1) ELSE m1} : Commit(m)

\* The MediaSource opens or closes.
ReadyStateChange ==
  \E m \in {[M EXCEPT !.readyState = IF @ = "open" THEN "closed" ELSE "open"]} : Commit(m)

\* The browser evicts buffered media without notice.
Evict ==
  /\ buffered # <<>>
  /\ \E b \in BufferedChoices :
       /\ Len(b) < Len(buffered)
       /\ \E m \in {[M EXCEPT !.buffered = b]} : Commit(m)

Next ==
  \/ Fetch
  \/ Clear
  \/ Reset
  \/ Abort
  \/ UpdateEnd
  \/ RequestDone
  \/ ReadyStateChange
  \/ Evict
  \/ LoadManifest

Spec == Init /\ [][Next]_vars

\* The fairness the collaborators owe: a request in flight settles, and the
\* SourceBuffer fires 'updateend' for every operation it accepted.  This is weak
\* fairness of UpdateEnd and of RequestDone with ENABLED written out: UpdateEnd is
\* enabled exactly while an operation is outstanding, RequestDone exactly while a
\* request is in flight.
LiveSpec ==
  /\ Spec
  /\ ([]<>(sinkPending = <<>>) \/ []<><<UpdateEnd>>_vars)
  /\ ([]<>(request = "none") \/ []<><<RequestDone>>_vars)

\* ------------------------------------------- fetch(): grouping of references
\* The stages fetch() appends to its task, for every reference list and with or
\* without an initialization segment.
GroupFetch ==
  /\ \E refs \in GroupRefLists, init \in BOOLEAN :
       grouping' = [refs |-> refs, init |-> init, stages |-> FetchStages(refs, init)]
  /\ UNCHANGED <<sbmVars, query, rewriterVars, ctl>>

GroupSpec == Init /\ [][GroupFetch]_vars

\* ------------------------------------------------- the buffered-time queries
\* bufferedAheadOf: the first range that holds the timestamp, each end moved out by
\* the fudge factor, gives the distance from the timestamp to its (unmoved) end.
RECURSIVE bufferedAheadOfFrom(_, _, _)
bufferedAheadOfFrom(b, timestamp, i) ==
  IF i > Len(b) THEN 0
  ELSE LET start == b[i].start - FUDGE_FACTOR_
           end   == b[i].end + FUDGE_FACTOR_
       IN IF timestamp >= start /\ timestamp <= end
          THEN b[i].end - timestamp
          ELSE bufferedAheadOfFrom(b, timestamp, i + 1)
bufferedAheadOf(b, timestamp) == bufferedAheadOfFrom(b, timestamp, 1)

isBuffered(b, timestamp) == bufferedAheadOf(b, timestamp) > 0

\* isBuffered and bufferedAheadOf called for a timestamp, whatever is buffered.
Query ==
  /\ \E b \in TimeRanges, t \in Timestamps :
       query' = [buffered |-> b, timestamp |-> t, ahead |-> bufferedAheadOf(b, t),
                 isBuffered |-> isBuffered(b, t)]
  /\ UNCHANGED <<sbmVars, grouping, rewriterVars, ctl>>

QuerySpec == Init /\ [][Query]_vars

\* ------------------------------------------------- uux: byte-array helpers
\* Byte arrays are sequences of 0..255; positions are counted from 0 as in the
\* code, so buffer[i] of the code is buffer[i + 1] here.
stringToByteArray(stringValue) ==
  CASE stringValue = "moof" -> <<109, 111, 111, 102>>
    [] stringValue = "mfhd" -> <<109, 102, 104, 100>>
    [] stringValue = "traf" -> <<116, 114, 97, 102>>
    [] stringValue = "tfhd" -> <<116, 102, 104, 100>>
    [] stringValue = "trun" -> <<116, 114, 117, 110>>
    [] stringValue = "tfdt" -> <<116, 102, 100, 116>>
    [] stringValue = "sdtp" -> <<115, 100, 116, 112>>
    [] stringValue = "uuid" -> <<117, 117, 105, 100>>
    [] stringValue = "saiz" -> <<115, 97, 105, 122>>
    [] stringValue = "saio" -> <<115, 97, 105, 111>>
    [] stringValue = "senc" -> <<115, 101, 110, 99>>
    [] stringValue = "mdat" -> <<109, 100, 97, 116>>
    [] stringValue = "styp" -> <<115, 116, 121, 112>>

\* numberToByteArray: the bytes of the number, most significant first, as many as
\* the buffer passed in has.
RECURSIVE numberToByteArray(_, _)
numberToByteArray(numberValue, n) ==
  IF n = 0 THEN <<>>
  ELSE LET byte == numberValue % 256
       IN numberToByteArray((numberValue - byte) \div 256, n - 1) \o <<byte>>
intToByteArray(intValue) == numberToByteArray(intValue, 4)
\* longValue is <<v>> for the number v and <<>> for undefined: undefined & 0xff is 0
\* and (undefined - 0) / 256 is NaN, so every byte is 0.
longToByteArray(longValue) ==
  IF longValue = <<>> THEN <<0, 0, 0, 0, 0, 0, 0, 0>>
  ELSE numberToByteArray(longValue[1], 8)

byteArrayToInt(buffer, position) ==
  ((buffer[position + 1] * 256 + buffer[position + 2]) * 256 + buffer[position + 3]) * 256
    + buffer[position + 4]

getArraySegment(buffer, start, end) ==
  [i \in 1..(IF end > start THEN end - start ELSE 0) |-> buffer[start + i]]

\* updateInArray: data written over the bytes from position on; an array too short
\* for it grows.
updateInArray(buffer, data, position) ==
  LET len == IF position + Len(data) > Len(buffer) THEN position + Len(data)
             ELSE Len(buffer)
  IN [i \in 1..len |->
        IF i > position /\ i <= position + Len(data) THEN data[i - position]
        ELSE IF i <= Len(buffer) THEN buffer[i] ELSE 0]

\* findBox: the first position whose bytes 4..7 spell the tag, looked for up to 9
\* bytes before the end; -1 when there is none.
findBox(buffer, boxType) ==
  LET boxTypeData == stringToByteArray(boxType)
      hits == {i \in 0..(Len(buffer) - 9) :
                 \A k \in 1..4 : buffer[i + 4 + k] = boxTypeData[k]}
  IN IF hits = {} THEN 0 - 1 ELSE CHOOSE i \in hits : \A j \in hits : i <= j

\* getBox: the bytes from the found position, as many as the size read there; the
\* code's null (no such tag) is told apart with findBox.
getBox(buffer, boxType) ==
  LET boxLocation == findBox(buffer, boxType) IN
  IF boxLocation = 0 - 1 THEN <<>>
  ELSE getArraySegment(buffer, boxLocation, boxLocation + byteArrayToInt(buffer, boxLocation))

\* (a variant that leaves the size placeholder as it was written)
updateBoxSize_keepsPlaceholder(buffer) == buffer
updateBoxSize(buffer) == updateInArray(buffer, intToByteArray(Len(buffer)), 0)

createTfdtBox(chunkTime) ==
  updateBoxSize(intToByteArray(0) \o stringToByteArray("tfdt") \o <<1>> \o <<0, 0, 0>>
                \o longToByteArray(chunkTime))

createSaizBox(ivCount) ==
  updateBoxSize(intToByteArray(0) \o stringToByteArray("saiz") \o <<0>>
                \o intToByteArray(16) \o intToByteArray(ivCount))

createSaioBox ==
  updateBoxSize(intToByteArray(0) \o stringToByteArray("saio") \o intToByteArray(0)
                \o intToByteArray(1) \o intToByteArray(0))

\* ------------------------------------------------- uux.convertFragment
uux_times ==
  <<0, 20020000, 40040000, 60060000, 80080000, 100100000, 120120000, 140140000,
    160160000, 180180000, 200200000, 220220000, 240240000, 260260000, 280280000,
    300300000, 320320000, 340340000, 360360000, 383049333>>
\* uux.times[i]: <<v>>, or <<>> (undefined) outside the table.
timesAt(i) == IF i \in 0..(Len(uux_times) - 1) THEN <<uux_times[i + 1]>> ELSE <<>>

\* (a variant that counts the 8 bytes of size and tag only)
saioOffset_afterTag(sencPosition, moofPosition) == sencPosition - moofPosition + 8
\* The value written into saio: sencPosition - moofPosition + 16.
saioOffset(sencPosition, moofPosition) == sencPosition - moofPosition + 16

\* convertFragment: what it returns (out) or that it threw a TypeError, and
\* uux.currentTime after it.  The chunkTime passed in is overwritten in the first
\* statement with uux.times[uux.currentTime++].
convertFragment(buffer, chunkTime, isEncrypted, cur) ==
  LET time  == timesAt(cur)
      next  == cur + 1
      null(boxType) == findBox(buffer, boxType) = 0 - 1
      mfhd  == getBox(buffer, "mfhd")
      Threw == [threw |-> TRUE, out |-> <<>>, currentTime |-> next]
      \* from "Result data" on
      Assemble(traf, mdat) ==
        LET moof == updateBoxSize(intToByteArray(0) \o stringToByteArray("moof")
                                  \o mfhd \o traf)
            result == moof \o mdat
            mdatPosition == findBox(result, "mdat")
            moofPosition == findBox(result, "moof")
            trunPosition == findBox(result, "trun")
            r1 == updateInArray(result, intToByteArray(mdatPosition + 8 - moofPosition),
                                trunPosition + 16)
            sencPosition == findBox(r1, "senc")
            saioPosition == findBox(r1, "saio")
            r2 == IF isEncrypted
                  THEN updateInArray(r1, intToByteArray(saioOffset(sencPosition, moofPosition)),
                                     saioPosition + 16)
                  ELSE r1
        IN [threw |-> FALSE, out |-> r2, currentTime |-> next]
  IN IF null("mfhd")
     THEN [threw |-> FALSE, out |-> buffer, currentTime |-> next]
     ELSE IF ~isEncrypted
     THEN \* appendToArray(traf, tfdt) and appendToArray(result, mdat) throw on null
          IF null("traf") \/ null("mdat") THEN Threw
          ELSE Assemble(updateBoxSize(getBox(buffer, "traf") \o createTfdtBox(time)),
                        getBox(buffer, "mdat"))
     ELSE \* tfhd.length, trun[12], uuid.length and mdat.length throw on null
          IF null("tfhd") \/ null("trun") \/ null("uuid") \/ null("mdat") THEN Threw
          ELSE LET tfhd == getBox(buffer, "tfhd")
                   trun == getBox(buffer, "trun")
                   uuid == getBox(buffer, "uuid")
                   mdat == getBox(buffer, "mdat")
                   ivCount == byteArrayToInt(trun, 12)
                   ivData == getArraySegment(uuid, 32, Len(uuid))
                   senc == updateBoxSize(intToByteArray(0) \o stringToByteArray("senc")
                                         \o intToByteArray(2) \o intToByteArray(ivCount)
                                         \o ivData)
                   traf == updateBoxSize(intToByteArray(0) \o stringToByteArray("traf")
                                         \o tfhd \o trun \o createSaizBox(ivCount)
                                         \o createSaioBox \o createTfdtBox(time) \o senc)
                   mediaData == getArraySegment(mdat, 8, Len(mdat))
                   mdat2 == updateBoxSize(intToByteArray(0) \o stringToByteArray("mdat")
                                          \o mediaData)
                   tfhdPosition == findBox(traf, "tfhd")
               IN Assemble(updateInArray(traf, <<2>>, tfhdPosition + 9), mdat2)

\* ------------------------------------------------- the fragments handed in
\* A box: size, tag, payload.
Box(boxType, payload) ==
  intToByteArray(8 + Len(payload)) \o stringToByteArray(boxType) \o payload
\* The initialization vectors of a fragment's samples, 8 bytes each: ordinary ones,
\* and one whose last four bytes are 6D 64 61 74.
IvChoices == { <<0, 0, 0, 1, 0, 0, 0, 5>>, <<0, 0, 0, 0, 109, 100, 97, 116>> }
\* The media bytes of a fragment: one to MaxPayload bytes.
Payloads == {[i \in 1..n |-> 16 + i] : n \in 1..MaxPayload}
\* The extended type of the sample-encryption uuid box.
PiffSampleEncryption ==
  <<162, 57, 79, 82, 90, 155, 79, 20, 162, 68, 108, 66, 124, 100, 141, 244>>
mfhdBox == Box("mfhd", <<0, 0, 0, 0>> \o intToByteArray(1))
tfhdBox == Box("tfhd", <<0, 0, 0, 0>> \o intToByteArray(1))
\* trun with the data-offset field present: flags, sample count, data offset.
trunBox == Box("trun", <<0, 0, 0, 1>> \o intToByteArray(1) \o intToByteArray(0))
uuidBox(iv) == Box("uuid", PiffSampleEncryption \o <<0, 0, 0, 0>> \o intToByteArray(1) \o iv)
\* A fragment is moof(mfhd, traf(tfhd, trun[, tfdt | uuid])) followed by mdat.
PlainFragment(payload) ==
  Box("moof", mfhdBox \o Box("traf", tfhdBox \o trunBox)) \o Box("mdat", payload)
TimedFragment(payload) ==
  Box("moof", mfhdBox \o Box("traf", tfhdBox \o createTfdtBox(<<7>>) \o trunBox))
    \o Box("mdat", payload)
EncryptedFragment(iv, payload) ==
  Box("moof", mfhdBox \o Box("traf", tfhdBox \o trunBox \o uuidBox(iv)))
    \o Box("mdat", payload)
\* sdtp: version and flags, then one byte of dependency flags per sample.
sdtpBox == Box("sdtp", <<0, 0, 0, 0>> \o <<20>>)
EncryptedFragmentSdtp(iv, payload) ==
  Box("moof", mfhdBox \o Box("traf", tfhdBox \o trunBox \o sdtpBox \o uuidBox(iv)))
    \o Box("mdat", payload)
\* What convertFragment is handed, with whether it is a valid fragment and whether
\* its samples are encrypted: valid fragments, a file without a moof box (so without
\* mfhd), and a moof box with mfhd and without traf.
Fragments ==
  {[bytes |-> PlainFragment(p), valid |-> TRUE, encrypted |-> FALSE] : p \in Payloads}
  \cup {[bytes |-> TimedFragment(<<17>>), valid |-> TRUE, encrypted |-> FALSE]}
  \cup {[bytes |-> EncryptedFragment(iv, <<17>>), valid |-> TRUE, encrypted |-> TRUE] :
         iv \in IvChoices}
  \cup {[bytes |-> EncryptedFragmentSdtp(iv, <<17>>), valid |-> TRUE, encrypted |-> TRUE] :
         iv \in IvChoices}
  \cup {[bytes |-> Box("styp", <<0, 0, 0, 0>>) \o Box("mdat", <<17>>),
         valid |-> FALSE, encrypted |-> FALSE],
        [bytes |-> Box("moof", mfhdBox) \o Box("mdat", <<17>>),
         valid |-> FALSE, encrypted |-> FALSE]}
\* The timestamps callers pass: the first reference's id.
ChunkTimes == {20020000, 40040000}

\* A call of uux.convertFragment; isEncrypted is passed as the fragment is.
ConvertFragment ==
  /\ currentTime < MaxCalls - 1
  /\ \E f \in Fragments, chunkTime \in ChunkTimes :
       LET r == convertFragment(f.bytes, chunkTime, f.encrypted, currentTime) IN
       /\ currentTime' = r.currentTime
       /\ conv' = [buffer |-> f.bytes, chunkTime |-> chunkTime, isEncrypted |-> f.encrypted,
                   valid |-> f.valid, threw |-> r.threw, out |-> r.out]
       /\ prev' = conv
  /\ UNCHANGED <<sbmVars, grouping, query, ctl>>

RewriterSpec == Init /\ [][ConvertFragment]_vars

\* ------------------------------------------------- uux.MssFragmentController
\* The box-tree rewriter works on the fragment mp4lib.deserialize returns.  A box of
\* traf is its type and, for trun, sepiff/senc and saiz, its sample count.
TrafBox(boxtype, sample_count) == [boxtype |-> boxtype, sample_count |-> sample_count]
Opt(present, box) == IF present THEN <<box>> ELSE <<>>
\* The traf boxes of the fragments handed in: tfhd first, then trun, with or without
\* tfdt, sdtp, the sample-encryption box (sepiff), tfxd, tfrf boxes and saiz and saio
\* boxes left from an earlier packaging.
TrafBoxLists ==
  {<<TrafBox("tfhd", 0)>> \o Opt(tfdt, TrafBox("tfdt", 0)) \o <<TrafBox("trun", n)>>
     \o Opt(sdtp, TrafBox("sdtp", 0)) \o Opt(sepiff, TrafBox("sepiff", n))
     \o Opt(tfxd, TrafBox("tfxd", 0)) \o [i \in 1..tfrf |-> TrafBox("tfrf", 0)]
     \o Opt(saiz, TrafBox("saiz", n)) \o Opt(saiz, TrafBox("saio", 0)) :
   tfdt \in BOOLEAN, sdtp \in BOOLEAN, sepiff \in BOOLEAN, tfxd \in BOOLEAN,
   saiz \in BOOLEAN, tfrf \in 0..MaxTfrf, n \in 1..MaxSamples}

\* getBoxByType: the place in boxes of the first box of the type, 0 for null.
getBoxByType(boxes, boxtype) ==
  IF \E i \in DOMAIN boxes : boxes[i].boxtype = boxtype
  THEN CHOOSE i \in DOMAIN boxes :
         /\ boxes[i].boxtype = boxtype
         /\ \A j \in 1..(i - 1) : boxes[j].boxtype # boxtype
  ELSE 0
\* (a variant that removes nothing)
removeBoxByType_keeps(boxes, boxtype) == boxes
\* removeBoxByType: the boxes without those of the type.  The lists handed in hold at
\* most one saiz, saio and tfxd box, and for tfrf the code calls it once per box.
removeBoxByType(boxes, boxtype) ==
  SelectSeq(boxes, LAMBDA b : b.boxtype # boxtype)
\* traf.boxes.splice(pos + 1, 0, box)
splice(boxes, pos, box) ==
  SubSeq(boxes, 1, pos) \o <<box>> \o SubSeq(boxes, pos + 1, Len(boxes))

\* convertFragment from "var sepiff" to the tfrf loop: traf.boxes when it is done.
MssFragmentController_convertFragment(boxes) ==
  LET sepiff == getBoxByType(boxes, "sepiff")
      protected ==
        IF sepiff # 0
        THEN LET renamed == [boxes EXCEPT ![sepiff].boxtype = "senc"]
                 saiz == TrafBox("saiz", boxes[sepiff].sample_count)
                 saio == TrafBox("saio", 0)
             IN removeBoxByType(removeBoxByType(renamed, "saiz"), "saio") \o <<saiz, saio>>
        ELSE boxes
      noTfxd == removeBoxByType(protected, "tfxd")
      \* getBoxPositionByType("tfhd"): tfhd is the first box, at position 0
      pos == getBoxByType(noTfxd, "tfhd") - 1
      timed == IF getBoxByType(noTfxd, "tfdt") = 0
               THEN splice(noTfxd, pos + 1, TrafBox("tfdt", 0))
               ELSE noTfxd
  IN removeBoxByType(timed, "tfrf")

\* A call of the box-tree rewriter.
ControllerConvert ==
  /\ \E boxes \in TrafBoxLists :
       ctl' = [traf |-> boxes, boxes |-> MssFragmentController_convertFragment(boxes)]
  /\ UNCHANGED <<sbmVars, grouping, query, rewriterVars>>

\* The two rewriters share no state: a behaviour of TrafSpec applies one of them.
TrafNext ==
  \/ (ctl = NoCtl /\ ConvertFragment)
  \/ (conv = NoConv /\ ControllerConvert)
TrafSpec == Init /\ [][TrafNext]_vars

\* ------------------------------------------------------------------ claims
\* A step is a call of op when it leaves op in lastCall: every other step clears it.

\* The states of a settled promise.
Settled == {"resolved", "rejected"}
\* The running stage waits for something that is still to come.
Waiting ==
  \/ request # "none"
  \/ /\ operationPromise_ # 0
     /\ awaitTok = operationPromise_
     /\ \E i \in DOMAIN sinkPending : sinkPending[i].tok = operationPromise_

\* C1: fetch() or clear() called while a task is active returns a promise rejected
\* with the in-progress error, leaves the inserted map as it was and calls no
\* SourceBuffer method; the task and the pending operation stay as they were.
C1_BusyCallRejected ==
  [][(task_ /\ lastCall'.op \in {"fetch", "clear"})
       => /\ lastCall'.ret = "InProgress"
          /\ inserted' = inserted
          /\ sinkCalls' = {} /\ ran' = <<>>
          /\ UNCHANGED <<task_, stages_, stage, sinkPending, operationPromise_, request>>
    ]_vars

C1_Witness ==
  /\ lastCall.op = "fetch" /\ lastCall.ret = "InProgress"
  /\ task_ /\ stage.kind = "append" /\ inserted # {} /\ sinkPending # <<>>

\* C2: the SourceBuffer never has two append/remove operations outstanding, and the
\* manager never calls appendBuffer or remove while an operation it issued has not
\* signalled its completion; also after abort() with the MediaSource not open.
C2_OneOutstanding == Len(sinkPending) <= 1 /\ ~overlap

C2_Witness ==
  /\ lastCall.op = "abort" /\ readyState = "closed" /\ sinkCalls = {}
  /\ stage.kind \in SinkKinds /\ Len(sinkPending) = 1 /\ task_ /\ aborting_

C4_AsClaimed ==
  /\ (taskOp = "fetch" /\ cleanStart /\ future.state = "resolved" /\ reqEv = "none")
       => taskRefs \subseteq inserted
  /\ (taskOp = "fetch" /\ cleanStart) => (taskRefs \cap inserted) \subseteq completed

\* C4 as amended: the same, for a fetch during which reset() was not called.
C4_ResolvedFetchInserted ==
  /\ (taskOp = "fetch" /\ cleanStart /\ future.state = "resolved" /\ reqEv = "none"
        /\ ~resetDuring)
       => taskRefs \subseteq inserted
  /\ (taskOp = "fetch" /\ cleanStart) => (taskRefs \cap inserted) \subseteq completed

C4_Witness ==
  /\ taskOp = "fetch" /\ cleanStart /\ future.state = "resolved" /\ reqEv = "none"
  /\ ~resetDuring /\ Cardinality(taskRefs) = 2 /\ taskRefs \subseteq inserted

\* C5: a request failing with a status the fetch ends early on resolves the
\* promise of fetch(): no stage starts, no SourceBuffer method is called, nothing is
\* marked or unmarked, and the task is over with no stage left.
C5_EarlyStopResolves ==
  (reqEv \in StatusErrs /\ reqEv \in endEarlyOn)
    => /\ future = [state |-> "resolved", err |-> "none"]
       /\ ~task_ /\ stages_ = <<>> /\ stage = NoStage /\ request = "none"
       /\ ran = <<>> /\ sinkCalls = {}
       /\ marked = {} /\ ~wiped

C5_Witness ==
  /\ reqEv = "status404" /\ future.state = "resolved"
  /\ inserted # {} /\ ~(taskRefs \subseteq inserted)

\* C6: a request failing with any other status, or appendBuffer throwing, rejects
\* the promise of fetch() with that error: nothing is called again, no later stage
\* starts, nothing is marked or unmarked, and the task is over with no stage left.
C6_FailureRejects ==
  /\ (reqEv \in StatusErrs /\ reqEv \notin endEarlyOn)
       => /\ future = [state |-> "rejected", err |-> reqEv]
          /\ ~task_ /\ stages_ = <<>> /\ stage = NoStage /\ request = "none"
          /\ ran = <<>> /\ sinkCalls = {}
          /\ marked = {} /\ ~wiped
  /\ (threw /\ "appendBuffer" \in sinkCalls)
       => /\ future = [state |-> "rejected", err |-> "appendException"]
          /\ ~task_ /\ stages_ = <<>> /\ stage = NoStage /\ request = "none"
          /\ Len(ran) = 1 /\ ran[1] \in {"init", "append"}
          /\ sinkCalls = {"appendBuffer"} /\ operationPromise_ = 0
          /\ marked = {} /\ ~wiped

C6_Witness ==
  /\ threw /\ future.err = "appendException" /\ reqEv = "ok"
  /\ inserted # {} /\ ~(taskRefs \subseteq inserted)

\* C7: the slot is empty when the promise of fetch()/clear() is settled, whatever
\* the outcome; an occupied slot means a stage is waiting for a request or for the
\* SourceBuffer; and fetch()/clear() called right after the settlement is accepted.
C7_SlotEmptiedOnSettle ==
  /\ [](future.state \in Settled => ~task_)
  /\ [](task_ => (future.state = "pending" /\ Waiting))
  /\ [][(future.state \in Settled /\ lastCall'.op \in {"fetch", "clear"})
          => lastCall'.ret = "future"]_vars

C7_Witness ==
  /\ future = [state |-> "rejected", err |-> "aborted"] /\ ~task_
  /\ sinkPending = <<>> /\ operationPromise_ = 0

\* C8: the promise of an accepted fetch()/clear() is settled at most once, and,
\* requests and SourceBuffer operations completing, it is eventually settled.
C8_SettlesOnce ==
  /\ [](settles <= 1 /\ (future.state \in Settled => settles = 1))
  /\ (future.state = "pending") ~> (future.state \in Settled)

C8_Witness ==
  /\ settles = 1 /\ future = [state |-> "rejected", err |-> "aborted"]
  /\ abortFuture.state = "resolved"

\* C9: abort() never returns a rejected promise (nor throws): with no task it
\* returns a resolved one, calls no SourceBuffer method and changes nothing, also
\* when called again; with a task its promise is pending until the task ends and
\* is resolved then.
C9_AbortNeverRejects ==
  /\ [](abortFuture.state \in {"none", "pending", "resolved"})
  /\ [](~task_ => abortFuture.state # "pending")
  /\ [](lastCall.op = "abort" => lastCall.ret \in {"resolved", "pending"})
  /\ [][(lastCall'.op = "abort" /\ ~task_)
          => /\ lastCall'.ret = "resolved"
             /\ sinkCalls' = {} /\ ran' = <<>>
             /\ UNCHANGED <<inserted, task_, sinkPending, operationPromise_, request>>
       ]_vars
  /\ [][(lastCall'.op = "abort" /\ task_)
          => (lastCall'.ret = "pending" /\ abortFuture'.state = "pending")]_vars

C9_Witness ==
  /\ lastCall.op = "abort" /\ lastCall.ret = "resolved" /\ ~task_
  /\ inserted # {} /\ buffered # <<>>

\* C10: abort() on an active task invokes the abort callback of the running stage
\* and no other; it calls sourceBuffer.abort() exactly when that stage is a
\* SourceBuffer operation and the MediaSource is open; and no stage of a task told
\* to abort starts afterwards, so that nothing is marked or appended by it.
C10_AbortStopsTask ==
  /\ [][(lastCall'.op = "abort" /\ task_)
          => /\ lastCall'.cb = (IF stage.kind = "fetch" THEN "request.abort"
                                ELSE IF stage.kind \in SinkKinds THEN "abort_"
                                ELSE "none")
             /\ ("abort" \in sinkCalls')
                  <=> (stage.kind \in SinkKinds /\ readyState = "open")
             /\ sinkCalls' \subseteq {"abort"}
             /\ ran' = <<>> /\ marked' = {}
       ]_vars
  /\ [][aborting_ => (ran' = <<>> /\ marked' = {} /\ sinkCalls' \subseteq {"abort"})]_vars
  /\ [](~lateRun)

C10_Witness ==
  /\ lastCall.op = "abort" /\ lastCall.cb = "abort_" /\ stage.kind = "append"
  /\ readyState = "open" /\ "abort" \in sinkCalls /\ sinkPending[1].aborted

\* C11 as claimed: whenever the SourceBuffer reports nothing buffered the inserted
\* map is empty, so that clear() called then finds it empty and leaves it empty,
\* and no id is marked once a clear() has resolved.
C11_EmptyBufferedEmptyMap ==
  /\ buffered = <<>> => inserted = {}
  /\ (taskOp = "clear" /\ future.state = "resolved") => inserted = {}

\* C12: clear() accepted while something is buffered calls remove once; if remove
\* does not throw, the map is emptied in that call and the promise stays pending,
\* to be resolved only by the 'updateend' of the completed removal; if remove throws,
\* the promise is rejected with the exception and the map is left as it was.
C12_ClearRemoves ==
  /\ [][(lastCall'.op = "clear" /\ ~task_ /\ buffered # <<>>)
          => /\ sinkCalls' = {"remove"}
             /\ ~threw' => /\ inserted' = {}
                           /\ task_' /\ future'.state = "pending"
                           /\ Len(sinkPending') = 1 /\ sinkPending'[1].kind = "remove"
             /\ threw' => /\ future' = [state |-> "rejected", err |-> "removeException"]
                          /\ inserted' = inserted
                          /\ ~task_' /\ sinkPending' = <<>> /\ operationPromise_' = 0
       ]_vars
  /\ [][(taskOp = "clear" /\ future.state = "pending" /\ future'.state = "resolved")
          => (sinkEv' = "completed" /\ Head(sinkPending).kind = "remove")]_vars

C12_Witness ==
  /\ taskOp = "clear" /\ future.state = "resolved" /\ sinkEv = "completed"
  /\ buffered = <<>> /\ inserted = {}

\* C13: reset() empties the inserted map in the call, with or without an active
\* task, calls no SourceBuffer method, starts no stage, and leaves the task, its
\* stages, the pending completion, the request and the SourceBuffer as they were.
C13_ResetOnlyEmptiesMap ==
  [][lastCall'.op = "reset"
       => /\ inserted' = {}
          /\ sinkCalls' = {} /\ ran' = <<>> /\ marked' = {}
          /\ UNCHANGED <<task_, stages_, stage, aborting_, awaitTok, operationPromise_,
                         sinkPending, request, buffered, readyState, streamInfo>>
    ]_vars

C13_Witness ==
  /\ lastCall.op = "reset" /\ task_ /\ stage.kind = "append" /\ sinkPending # <<>>
  /\ completed # {} /\ operationPromise_ # 0 /\ inserted = {}

\* C14 as claimed: a step that runs an append stage passes the fetched bytes through
\* convertFragment exactly when the playing manifest is a Smooth Streaming one; under
\* a DASH manifest, also one loaded after an MSS manifest was parsed, the SourceBuffer
\* gets the fetched bytes as they are, in one appendBuffer for the group.
C14_RewrittenIffLegacy ==
  "append" \in Range(ran) =>
    /\ (converted # "none") <=> (manifest = "mss")
    /\ Cardinality({i \in DOMAIN ran : ran[i] = "append"}) = 1
    /\ manifest = "dash" =>
         /\ sinkCalls = {"appendBuffer"}
         /\ ~threw => ~sinkPending[Len(sinkPending)].rewritten

\* C16 as claimed: handed bytes that are not a fragment, convertFragment raises
\* nothing and returns its input, and the append stage hands that to appendBuffer.
C16_MalformedPassedThrough ==
  (converted # "none" /\ fetched \in FetchedKinds \ {"fragment"})
    => /\ converted = "same"
       /\ "appendBuffer" \in sinkCalls
       /\ ~threw => ~sinkPending[Len(sinkPending)].rewritten

\* What C19 speaks of: the stages built for the references (after the optional
\* init stage), taken three by three, and the request of each group.
GroupStages == IF grouping.init THEN Tail(grouping.stages) ELSE grouping.stages
Requests ==
  [k \in 1..(Len(GroupStages) \div 3) |-> RangeRequest(grouping.refs, GroupStages[3 * k - 2])]
\* Every group is a request stage, an append stage and a mark stage for the same
\* references.
GroupsWellFormed ==
  /\ Len(GroupStages) % 3 = 0
  /\ \A k \in DOMAIN Requests :
       /\ GroupStages[3 * k - 2].kind = "fetch"
       /\ GroupStages[3 * k - 1] = Stage("append", GroupStages[3 * k - 2].refs)
       /\ GroupStages[3 * k] = Stage("mark", GroupStages[3 * k - 2].refs)
\* The maximal runs of consecutive references with one URL: where they start, and
\* where the run starting at i ends.
RunStarts(refs) == {i \in DOMAIN refs : i = 1 \/ refs[i].url # refs[i - 1].url}
RunEnd(refs, i) ==
  CHOOSE j \in i..Len(refs) :
    /\ \A k \in i..j : refs[k].url = refs[i].url
    /\ j = Len(refs) \/ refs[j + 1].url # refs[i].url

\* C19 as claimed: one request per maximal run of consecutive references with the
\* same URL, from the run's first startByte to its last endByte, each followed by one
\* append and one mark stage.
C19_OneRequestPerRun ==
  LET refs == grouping.refs IN
  /\ GroupsWellFormed
  /\ Len(Requests) = Cardinality(RunStarts(refs))
  /\ Range(Requests) =
       {[url |-> refs[i].url, startByte |-> refs[i].startByte,
         endByte |-> refs[RunEnd(refs, i)].endByte] : i \in RunStarts(refs)}

\* C19, corrected: when every reference has the URL of the first, one request from
\* the first startByte to the last endByte, one append and one mark stage for all;
\* otherwise one request, append and mark per reference, also for neighbours that
\* share a URL.
C19_OneRequestOrOnePerReference ==
  LET refs == grouping.refs IN
  /\ GroupsWellFormed
  /\ IF refs = <<>> THEN Requests = <<>>
     ELSE IF \A i \in DOMAIN refs : refs[i].url = refs[1].url
     THEN /\ Requests = <<[url |-> refs[1].url, startByte |-> refs[1].startByte,
                           endByte |-> refs[Len(refs)].endByte]>>
          /\ GroupStages[1].refs = IdsOf(refs)
     ELSE /\ Requests = [i \in DOMAIN refs |->
                           [url |-> refs[i].url, startByte |-> refs[i].startByte,
                            endByte |-> refs[i].endByte]]
          /\ \A i \in DOMAIN refs : GroupStages[3 * i - 2].refs = <<refs[i].id>>

C19_Witness ==
  /\ [i \in DOMAIN grouping.refs |-> grouping.refs[i].url] = <<"A", "A", "B">>
  /\ Len(Requests) = 3
  /\ grouping.init

\* The timestamp lies in range r with both ends moved out by 1/60 s.
WithinTolerance(r, t) == r.start - FUDGE_FACTOR_ <= t /\ t <= r.end + FUDGE_FACTOR_

\* C15 as claimed: for the first buffered range [s, e] with s - 1/60 <= t <= e + 1/60,
\* isBuffered(t) is true and bufferedAheadOf(t) is e - t.
C15_WithinToleranceBuffered ==
  \A i \in DOMAIN query.buffered :
    (/\ WithinTolerance(query.buffered[i], query.timestamp)
     /\ \A j \in 1..(i - 1) : ~WithinTolerance(query.buffered[j], query.timestamp))
      => /\ query.isBuffered
         /\ query.ahead = query.buffered[i].end - query.timestamp

\* The box structure of a byte array, read by declared sizes: where the boxes laid
\* end to end in buffer[from .. to) start.
RECURSIVE BoxesIn(_, _, _)
BoxesIn(buffer, from, to) ==
  IF from + 8 > to THEN {}
  ELSE LET size == byteArrayToInt(buffer, from) IN
       IF size < 8 \/ from + size > to THEN {}
       ELSE {from} \cup BoxesIn(buffer, from + size, to)
\* The children of the box at position at, and those of them with a given tag.
ChildrenOf(buffer, at) == BoxesIn(buffer, at + 8, at + byteArrayToInt(buffer, at))
Tagged(buffer, positions, boxType) ==
  {at \in positions : SubSeq(buffer, at + 5, at + 8) = stringToByteArray(boxType)}
\* In what the last call returned: the moof and mdat boxes at the top level, the
\* traf boxes in moof, and the trun and tfdt boxes in traf.
OutMoof == Tagged(conv.out, BoxesIn(conv.out, 0, Len(conv.out)), "moof")
OutMdat == Tagged(conv.out, BoxesIn(conv.out, 0, Len(conv.out)), "mdat")
OutTraf == UNION {Tagged(conv.out, ChildrenOf(conv.out, at), "traf") : at \in OutMoof}
OutTrun == UNION {Tagged(conv.out, ChildrenOf(conv.out, at), "trun") : at \in OutTraf}
OutTfdt == UNION {Tagged(conv.out, ChildrenOf(conv.out, at), "tfdt") : at \in OutTraf}

\* C17 as claimed: the traf box returned for a valid fragment holds a tfdt box of
\* version 1 whose 64-bit baseMediaDecodeTime is the timestamp the caller passed,
\* in every call and whether or not the fragment came with a tfdt box.
C17_TfdtCarriesSuppliedTime ==
  conv.valid =>
    /\ ~conv.threw
    /\ \E at \in OutTfdt :
         /\ conv.out[at + 9] = 1
         /\ SubSeq(conv.out, at + 13, at + 20) = numberToByteArray(conv.chunkTime, 8)

\* C18 as claimed: two calls with equal bytes, timestamp and encrypted flag return
\* the same, whatever was called before them.
C18_SameInputsSameOutput ==
  (/\ prev # NoConv
   /\ prev.buffer = conv.buffer
   /\ prev.chunkTime = conv.chunkTime
   /\ prev.isEncrypted = conv.isEncrypted)
    => (prev.threw = conv.threw /\ prev.out = conv.out)

\* C20 as claimed: in what is returned for a valid fragment, encrypted or not, the
\* 32-bit value at byte 16 of the trun box is (start of mdat) + 8 - (start of moof).
C20_TrunDataOffset ==
  conv.valid =>
    /\ ~conv.threw
    /\ \E moof \in OutMoof, mdat \in OutMdat :
         /\ OutTrun # {}
         /\ \A trun \in OutTrun : byteArrayToInt(conv.out, trun + 16) = mdat + 8 - moof

\* Where the walk of BoxesIn stops: to when the boxes fill buffer[from .. to) exactly.
RECURSIVE BoxesEnd(_, _, _)
BoxesEnd(buffer, from, to) ==
  IF from + 8 > to THEN from
  ELSE LET size == byteArrayToInt(buffer, from) IN
       IF size < 8 \/ from + size > to THEN from
       ELSE BoxesEnd(buffer, from + size, to)
Filled(buffer, from, to) == BoxesEnd(buffer, from, to) = to
SizeAt(buffer, at) == byteArrayToInt(buffer, at)
TagAt(buffer, at) == SubSeq(buffer, at + 5, at + 8)
\* The boxes of a returned traf, and the length of each box the rewriter builds
\* with fixed fields.
TrafTags == {"tfhd", "trun", "tfdt", "saiz", "saio", "senc"}
BuiltLength(boxType) ==
  CASE boxType = "tfdt" -> Len(createTfdtBox(<<0>>))
    [] boxType = "saiz" -> Len(createSaizBox(0))
    [] boxType = "saio" -> Len(createSaioBox)

\* C21: in what is returned for a valid fragment every size field is the length of
\* the box it heads: moof and mdat laid end to end are the whole output, mfhd and
\* traf fill moof after its 8-byte header, the children of traf fill traf after its
\* header, and tfdt, saiz and saio declare the length they were built with.
C21_SizesAreLengths ==
  (conv.valid /\ ~conv.threw) =>
    /\ OutMoof = {0}
    /\ \E mdat \in OutMdat :
         /\ mdat = SizeAt(conv.out, 0)
         /\ SizeAt(conv.out, 0) + SizeAt(conv.out, mdat) = Len(conv.out)
    /\ Filled(conv.out, 8, SizeAt(conv.out, 0))
    /\ Tagged(conv.out, ChildrenOf(conv.out, 0), "mfhd") # {}
    /\ OutTraf # {}
    /\ \A traf \in OutTraf :
         /\ Filled(conv.out, traf + 8, traf + SizeAt(conv.out, traf))
         /\ \A at \in ChildrenOf(conv.out, traf) :
              /\ \E boxType \in TrafTags : TagAt(conv.out, at) = stringToByteArray(boxType)
              /\ \A boxType \in {"tfdt", "saiz", "saio"} :
                   TagAt(conv.out, at) = stringToByteArray(boxType)
                     => SizeAt(conv.out, at) = BuiltLength(boxType)
\* An encrypted fragment was rewritten: its traf holds a senc box.
C21_Witness ==
  /\ conv.valid /\ conv.isEncrypted /\ ~conv.threw
  /\ \E traf \in OutTraf : Tagged(conv.out, ChildrenOf(conv.out, traf), "senc") # {}


\* The tags of the boxes laid end to end in buffer[from .. to), in their order.
RECURSIVE TagsFrom(_, _, _)
TagsFrom(buffer, from, to) ==
  IF from + 8 > to THEN <<>>
  ELSE LET size == byteArrayToInt(buffer, from) IN
       IF size < 8 \/ from + size > to THEN <<>>
       ELSE <<TagAt(buffer, from)>> \o TagsFrom(buffer, from + size, to)
\* The children the claim gives the traf of an encrypted fragment.
ClaimedChildren == <<"tfhd", "trun", "saiz", "saio", "tfdt", "senc">>
BoxTypes(boxes) == [i \in DOMAIN boxes |-> boxes[i].boxtype]
\* The sample counts declared by the saiz and senc boxes of a list are the trun's.
SampleCountsAgree(boxes) ==
  \A i, j \in DOMAIN boxes :
    (boxes[i].boxtype \in {"saiz", "senc"} /\ boxes[j].boxtype = "trun")
      => boxes[i].sample_count = boxes[j].sample_count

\* What uux.convertFragment returns for a valid encrypted fragment: traf holds
\* tfhd, trun, saiz, saio, tfdt, senc in this order and nothing else, and saiz (at
\* byte 13) and senc (at byte 12) declare the sample count of trun (at byte 12).
HandWrittenAsClaimed ==
  (conv.valid /\ conv.isEncrypted /\ ~conv.threw) =>
    /\ OutTraf # {}
    /\ \A traf \in OutTraf :
         LET children == ChildrenOf(conv.out, traf) IN
         /\ Filled(conv.out, traf + 8, traf + SizeAt(conv.out, traf))
         /\ TagsFrom(conv.out, traf + 8, traf + SizeAt(conv.out, traf))
              = [i \in DOMAIN ClaimedChildren |-> stringToByteArray(ClaimedChildren[i])]
         /\ \A trun \in Tagged(conv.out, children, "trun") :
              /\ \A saiz \in Tagged(conv.out, children, "saiz") :
                   byteArrayToInt(conv.out, saiz + 13) = byteArrayToInt(conv.out, trun + 12)
              /\ \A senc \in Tagged(conv.out, children, "senc") :
                   byteArrayToInt(conv.out, senc + 12) = byteArrayToInt(conv.out, trun + 12)

\* C22 as claimed: for an encrypted fragment the traf box either rewriter leaves has
\* exactly the children tfhd, trun, saiz, saio, tfdt, senc in this order, saiz and
\* senc declaring the sample count of trun.
C22_ChildrenAsClaimed ==
  /\ HandWrittenAsClaimed
  /\ getBoxByType(ctl.traf, "sepiff") # 0 =>
       /\ BoxTypes(ctl.boxes) = ClaimedChildren
       /\ SampleCountsAgree(ctl.boxes)

\* C22, amended: uux.convertFragment leaves the children as claimed; the box-tree
\* rewriter leaves tfhd, tfdt, trun, the sdtp box when the fragment has one, senc (the
\* sample-encryption box renamed where it stood), saiz, saio: one each of saiz, saio,
\* tfdt and senc, no sepiff, tfxd or tfrf box, saiz and senc declaring the sample
\* count of trun.
C22_ChildrenPerRewriter ==
  /\ HandWrittenAsClaimed
  /\ getBoxByType(ctl.traf, "sepiff") # 0 =>
       /\ BoxTypes(ctl.boxes) =
            <<"tfhd", "tfdt", "trun">>
              \o (IF getBoxByType(ctl.traf, "sdtp") # 0 THEN <<"sdtp">> ELSE <<>>)
              \o <<"senc", "saiz", "saio">>
       /\ SampleCountsAgree(ctl.boxes)
\* The box-tree rewriter was handed an encrypted fragment with sdtp, tfxd, tfrf and
\* stale saiz and saio boxes.
C22_Witness ==
  /\ \A boxtype \in {"sepiff", "sdtp", "tfxd", "tfrf", "saiz", "saio"} :
       getBoxByType(ctl.traf, boxtype) # 0
  /\ ctl.boxes # <<>>


\* C23: in what uux.convertFragment returns for a valid encrypted fragment the 32-bit
\* value at byte 16 of the saio box is (start of senc) - (start of moof) + 16, and at
\* that place, counted from the start of moof, the initialization vectors of the
\* fragment handed in begin.
C23_SaioOffset ==
  (conv.valid /\ conv.isEncrypted /\ ~conv.threw) =>
    \E moof \in OutMoof, traf \in OutTraf :
      \E saio \in Tagged(conv.out, ChildrenOf(conv.out, traf), "saio"),
         senc \in Tagged(conv.out, ChildrenOf(conv.out, traf), "senc") :
        LET offset == byteArrayToInt(conv.out, saio + 16) IN
        /\ offset = senc - moof + 16
        /\ \E iv \in IvChoices :
             /\ SubSeq(conv.out, moof + offset + 1, moof + offset + Len(iv)) = iv
             /\ EncryptedFragment(iv, <<17>>) = conv.buffer
                  \/ EncryptedFragmentSdtp(iv, <<17>>) = conv.buffer
\* An encrypted fragment whose traf holds an sdtp box was rewritten: the rebuilt traf
\* is shorter than the one handed in up to senc.
C23_Witness ==
  /\ conv.valid /\ conv.isEncrypted /\ ~conv.threw
  /\ findBox(conv.buffer, "sdtp") # 0 - 1
  /\ \E traf \in OutTraf : Tagged(conv.out, ChildrenOf(conv.out, traf), "saio") # {}


\* C24: operationPromise_ is registered only while a task is active and its running
\* stage is the SourceBuffer operation awaited; it is registered exactly while that
\* operation's 'updateend' is outstanding, so every 'updateend' meets the completion
\* of the operation that caused it (also one the sink aborted, and one abort() could
\* not abort because the MediaSource was closed); and append_ and clear_ are entered
\* only with no completion registered, or in the 'updateend' handler's step after it
\* has set operationPromise_ to null.
C24_CompletionOnlyOfRunningOperation ==
  /\ [](operationPromise_ # 0
          => /\ task_ /\ stage.kind \in SinkKinds /\ awaitTok = operationPromise_
             /\ Len(sinkPending) = 1 /\ sinkPending[1].tok = operationPromise_)
  /\ [](sinkPending # <<>> => operationPromise_ # 0)
  /\ [][(\E i \in DOMAIN ran' : ran'[i] \in SinkKinds)
          => (operationPromise_ = 0 \/ sinkEv' # "none")]_vars
  /\ [][sinkEv' # "none"
          => /\ operationPromise_ = Head(sinkPending).tok
             /\ operationPromise_' # operationPromise_]_vars
\* The 'updateend' of an operation abort() could not abort, the MediaSource being
\* closed, has been delivered: it ended the task as aborted and left nothing
\* registered.
C24_Witness ==
  /\ sinkEv = "completed" /\ ~task_ /\ operationPromise_ = 0
  /\ future.state = "rejected" /\ future.err = "aborted"


\* C25 as claimed: once reset() has been called while a fetch task is active, no
\* step marks a reference of that task inserted, so that the map emptied by reset()
\* holds no id of a fetch made before it.
C25_NoMarkAfterReset ==
  (resetDuring /\ taskOp = "fetch") => (marked \cap taskRefs = {})


TypeOK ==
  /\ inserted \subseteq Ids
  /\ task_ \in BOOLEAN
  /\ operationPromise_ \in 0..(MaxSinkOps + 2)
  /\ Len(sinkPending) <= MaxSinkOps
  /\ request \in {"none", "sent", "aborted"}
  /\ readyState \in {"open", "closed"}
  /\ buffered \in BufferedChoices
  /\ future.state \in {"none", "pending", "resolved", "rejected"}
  /\ baseUrl \in {"null", "uri"}
  /\ manifest \in ManifestKinds
  /\ fetched \in FetchedKinds \cup {"none"}
  /\ converted \in {"none", "rewritten", "same", "null", "threw"}
  /\ sinkEv \in {"none", "completed", "aborted"}
  /\ currentTime \in (0 - 1)..(MaxCalls - 1)
  /\ conv.threw \in BOOLEAN
  /\ \A i \in DOMAIN conv.out : conv.out[i] \in 0..255
  /\ \A i \in DOMAIN ctl.boxes : ctl.boxes[i].sample_count \in 0..MaxSamples
====
